---- MODULE Spec2Model ----
(***************************************************************************)
(* Model of pyscf/neo/ks.py: the electron-proton correlation functional     *)
(* (eval_epc), the inter-component interaction with correlation             *)
(* (InteractionCorrelation) and the multi-component Kohn-Sham object (KS).  *)
(*                                                                          *)
(* Conventions of the model                                                 *)
(*  - every component has one basis function, so a matrix is one integer;   *)
(*  - real numbers are fixed-point integers: the functional parameters      *)
(*    a, b, c are in units of 1/100, a quotient x/d is (x*1000) \div d;      *)
(*  - a component tag 'e', 'p', 'n<i>' is the pair <<"e",0>>, <<"p",0>>,      *)
(*    <<"n",i>>, so that startswith('n') is a test of the first field;      *)
(*  - a numpy array that may carry lib.tag_array attributes is a record     *)
(*    [m, tag, exc, vj]: hasattr(x, 'exc') is x.tag;                        *)
(*  - an exception ends the run: status records its type.                   *)
(***************************************************************************)
EXTENDS Integers, Sequences, FiniteSets, TLC

MaxNuc == 2      \* atoms 0..MaxNuc-1 may be quantum nuclei
MaxGrid == 5     \* largest number of grid points
MaxBlk == 2      \* largest block_loop block, in units of BLKSIZE
MaxCalls == 2    \* energy_elec calls made with one vhf
BLKSIZE == 2     \* numint.BLKSIZE (scaled down), grid points per mask row

(***************************************************************************)
(* Component tags                                                           *)
(***************************************************************************)
E == <<"e", 0>>
P == <<"p", 0>>
N(i) == <<"n", i>>
Atoms == 0 .. (MaxNuc - 1)
Tags == {E, P} \cup {N(i) : i \in Atoms}

startswith_n(t) == t[1] = "n"
atom_index(t) == t[2]

\* sorted(components.keys()): 'e' < 'n0' < 'n1' < ... < 'p'
Rank(t) == IF t = E THEN 0 ELSE IF t = P THEN MaxNuc + 1 ELSE 1 + t[2]

(***************************************************************************)
(* The molecule: which atoms are quantum nuclei and of which element, and   *)
(* whether a positron component exists.                                     *)
(***************************************************************************)
Elements == {"-", "H", "X"}     \* "-" : the atom is a classical point charge
Mols == [nuc : [Atoms -> Elements], pos : BOOLEAN]

mol_components(m) ==
    {E} \cup {N(i) : i \in {j \in Atoms : m.nuc[j] # "-"}}
        \cup (IF m.pos THEN {P} ELSE {})

atom_pure_symbol(m, i) == m.nuc[i]

(***************************************************************************)
(* Functional specifications (self.epc): None, a str, or a dict.  keys is   *)
(* the set of keys of the dict.                                             *)
(***************************************************************************)
EpcNone == [kind |-> "none", name |-> "", keys |-> {}, epc_type |-> "",
            a |-> 0, b |-> 0, c |-> 0, epc_nuc |-> {}]
EpcStr(s) == [kind |-> "str", name |-> s, keys |-> {}, epc_type |-> "",
              a |-> 0, b |-> 0, c |-> 0, epc_nuc |-> {}]
EpcDict(ks, ty, pa, pb, pc, nuc) ==
    [kind |-> "dict", name |-> "", keys |-> ks, epc_type |-> ty,
     a |-> IF "a" \in ks THEN pa ELSE 0,
     b |-> IF "b" \in ks THEN pb ELSE 0,
     c |-> IF "c" \in ks THEN pc ELSE 0,
     epc_nuc |-> IF "epc_nuc" \in ks THEN nuc ELSE {}]

AllKeys == {"epc_type", "a", "b", "c", "epc_nuc"}

EpcSpecs ==
    { EpcNone,
      EpcStr("17-1"), EpcStr("17-2"), EpcStr("18-1"), EpcStr("18-2"),
      EpcStr("19-1"),
      EpcDict(AllKeys, "17", 200, 20, 5, {0}),
      EpcDict(AllKeys, "18", 180, 10, 3, {0}),
      EpcDict(AllKeys, "18", 200, 20, 5, {1}),
      EpcDict(AllKeys \ {"c"}, "17", 200, 20, 5, {0}),
      EpcDict(AllKeys \ {"a", "b", "c"}, "17-1", 0, 0, 0, {0}),
      EpcDict({"epc_nuc"}, "", 0, 0, 0, {0}),
      EpcDict(AllKeys, "20", 200, 20, 5, {0}),
      EpcDict(AllKeys \ {"epc_nuc"}, "18", 200, 20, 5, {}),
      EpcDict({"epc_type", "a", "b"}, "17", 200, 20, 5, {}) }

(***************************************************************************)
(* eval_epc                                                                 *)
(***************************************************************************)
ParamNames == {"17-1", "17-2", "18-1", "18-2"}

params(name) ==
    CASE name = "17-1" -> <<235, 240, 320>>
      [] name = "17-2" -> <<235, 240, 660>>
      [] name = "18-1" -> <<180, 10, 3>>
      [] name = "18-2" -> <<390, 50, 6>>

\* startswith_17 as an equality test
startswith_17_exact(s) == s = "17"

\* str.startswith('17') on the type strings that can reach line 59
startswith_17(s) == s \in {"17", "17-1", "17-2"}

\* lines 41-56: the type and the parameter triple, or the exception raised
parse_epc(epc) ==
    IF epc.kind = "dict"
    THEN LET epc_type == IF "epc_type" \in epc.keys THEN epc.epc_type ELSE "17-2"
         IN  IF epc_type \in {"17", "18"}
             THEN IF {"a", "b", "c"} \subseteq epc.keys
                  THEN [status |-> "ok", epc_type |-> epc_type,
                        abc |-> <<epc.a, epc.b, epc.c>>]
                  ELSE [status |-> "KeyError", epc_type |-> epc_type,
                        abc |-> <<0, 0, 0>>]
             ELSE IF epc_type \notin ParamNames
                  THEN [status |-> "ValueError", epc_type |-> epc_type,
                        abc |-> <<0, 0, 0>>]
                  ELSE [status |-> "ok", epc_type |-> epc_type,
                        abc |-> params(epc_type)]
    ELSE LET epc_type == epc.name
         IN  IF epc_type \notin ParamNames
             THEN [status |-> "ValueError", epc_type |-> epc_type,
                   abc |-> <<0, 0, 0>>]
             ELSE [status |-> "ok", epc_type |-> epc_type,
                   abc |-> params(epc_type)]

\* fixed-point quotient, square root and cube root
Quot(x, d) == (x * 1000) \div d
Isqrt(n) == CHOOSE k \in 0 .. n : k * k <= n /\ n < (k + 1) * (k + 1)
Icbrt(n) == CHOOSE k \in 0 .. n : k * k * k <= n /\ n < (k + 1) * (k + 1) * (k + 1)

\* lines 60-75
epc17(a, b, c, rho_e, rho_n) ==
    LET rho_prod == rho_e * rho_n
        rho_sqrt == Isqrt(rho_prod)
        denom    == a - b * rho_sqrt + c * rho_prod
        denom2   == denom * denom
        numer_n  == (0 - a) * rho_e + (b \div 2) * rho_e * rho_sqrt
        numer_e  == (0 - a) * rho_n + (b \div 2) * rho_n * rho_sqrt
    IN  [exc   |-> Quot((0 - rho_e) * 100, denom),
         vxc_n |-> Quot(numer_n * 100, denom2),
         vxc_e |-> Quot(numer_e * 100, denom2)]

\* lines 77-99
epc18(a, b, c, rho_e, rho_n) ==
    LET rho_e_cbrt == Icbrt(rho_e)
        rho_n_cbrt == Icbrt(rho_n)
        beta    == rho_e_cbrt + rho_n_cbrt
        beta2   == beta * beta
        beta3   == beta * beta2
        beta5   == beta2 * beta3
        beta6   == beta3 * beta3
        denom   == a - b * beta3 + c * beta6
        denom2  == denom * denom
        e4      == rho_e_cbrt * rho_e_cbrt * rho_e_cbrt * rho_e_cbrt
        n4      == rho_n_cbrt * rho_n_cbrt * rho_n_cbrt * rho_n_cbrt
        numer_n == a * rho_e - b * e4 * beta2
                     + c * (rho_e * beta5) * (rho_e_cbrt - rho_n_cbrt)
        numer_e == a * rho_n - b * n4 * beta2
                     + c * (rho_n * beta5) * (rho_n_cbrt - rho_e_cbrt)
    IN  [exc   |-> Quot((0 - rho_e) * 100, denom),
         vxc_n |-> Quot((0 - numer_n) * 100, denom2),
         vxc_e |-> Quot((0 - numer_e) * 100, denom2)]

\* eval_epc at one grid point: status, the resolved type and triple, and the
\* three values
eval_epc(epc, rho_e, rho_n) ==
    LET r == parse_epc(epc)
        v == IF r.status # "ok" THEN [exc |-> 0, vxc_n |-> 0, vxc_e |-> 0]
             ELSE IF startswith_17(r.epc_type)
                  THEN epc17(r.abc[1], r.abc[2], r.abc[3], rho_e, rho_n)
                  ELSE epc18(r.abc[1], r.abc[2], r.abc[3], rho_e, rho_n)
    IN  [status |-> r.status, epc_type |-> r.epc_type, abc |-> r.abc,
         exc |-> v.exc, vxc_n |-> v.vxc_n, vxc_e |-> v.vxc_e]

(***************************************************************************)
(* InteractionCorrelation._need_epc for the pair (mf1_type, mf2_type) of    *)
(* molecule m.  The `in self.epc['epc_nuc']` of a dict without that key     *)
(* raises KeyError.                                                         *)
(***************************************************************************)
\* need_epc_branch without the test of the element
need_epc_branch_any_element(epc, m, t_e, t_n) ==
    IF t_e = E /\ startswith_n(t_n)
    THEN IF epc.kind = "str" THEN "True"
         ELSE IF "epc_nuc" \notin epc.keys THEN "KeyError"
         ELSE IF atom_index(t_n) \in epc.epc_nuc THEN "True" ELSE "False"
    ELSE "False"

need_epc_branch(epc, m, t_e, t_n) ==
    IF t_e = E /\ startswith_n(t_n)
          /\ atom_pure_symbol(m, atom_index(t_n)) = "H"
    THEN IF epc.kind = "str" THEN "True"
         ELSE IF "epc_nuc" \notin epc.keys THEN "KeyError"
         ELSE IF atom_index(t_n) \in epc.epc_nuc THEN "True" ELSE "False"
    ELSE "False"

_need_epc(epc, m, mf1_type, mf2_type) ==
    IF epc.kind = "none" THEN "False"
    ELSE LET r1 == need_epc_branch(epc, m, mf1_type, mf2_type)
         IN  IF r1 # "False" THEN r1
             ELSE need_epc_branch(epc, m, mf2_type, mf1_type)

(***************************************************************************)
(* Arrays with tags (lib.tag_array).  Arithmetic on a tagged array gives a  *)
(* plain array, so a sum is taken of the m fields.                          *)
(***************************************************************************)
plain(x) == [m |-> x, tag |-> FALSE, exc |-> 0, vj |-> 0]
tag_array(x, e, j) == [m |-> x, tag |-> TRUE, exc |-> e, vj |-> j]
hasattr_exc(x) == x.tag
hasattr_vj(x) == x.tag

(***************************************************************************)
(* hf.InteractionCoulomb.get_vint: the Coulomb potential each member of     *)
(* the pair feels from the density of the other, zero when that density is  *)
(* not supplied.  Kern is even so that the .5 of energy_elec is exact.      *)
(***************************************************************************)
charge(t) == IF t = E THEN 1 ELSE 0 - 1
Kern(t, u) == 2 * (1 + Rank(t) + Rank(u))
Other(pair, t) == IF t = pair[1] THEN pair[2] ELSE pair[1]

InteractionCoulomb_get_vint(pair, dm) ==
    [t \in {pair[1], pair[2]} |->
        IF Other(pair, t) \in DOMAIN dm
        THEN charge(t) * charge(Other(pair, t)) * Kern(pair[1], pair[2])
                 * dm[Other(pair, t)]
        ELSE 0]

(***************************************************************************)
(* The grid of the electronic component: ngrids points, block_loop blocks   *)
(* of blk*BLKSIZE points, and for each nucleus the mask rows (of BLKSIZE    *)
(* points) in which its basis function is not negligible.                   *)
(***************************************************************************)
NRows(ngrids) == (ngrids + BLKSIZE - 1) \div BLKSIZE
Grids ==
    UNION { [ngrids : {n}, blk : 1 .. MaxBlk,
             non0 : [Atoms -> SUBSET (0 .. (NRows(n) - 1))]] : n \in 1 .. MaxGrid }

\* dm_e is the density matrix summed over spin (lines 153-154); with one basis
\* function per component the pair screening of lines 156-158 removes nothing
weight(p) == 2 * (1 + (p % 2))
ao_e(p) == 1
Min(x, y) == IF x < y THEN x ELSE y
Clamp(x) == IF x < 0 THEN 0 ELSE x

\* ni.block_loop: the sizes of the weight arrays it yields, in order
block_loop(g) ==
    LET blksize == g.blk * BLKSIZE
        nblocks == (g.ngrids + blksize - 1) \div blksize
    IN  [k \in 1 .. nblocks |-> Min(blksize, g.ngrids - (k - 1) * blksize)]

\* ni.make_mask for nucleus i: one entry per row of BLKSIZE points
make_mask(g, i) == [r \in 0 .. (NRows(g.ngrids) - 1) |-> IF r \in g.non0[i] THEN 1 ELSE 0]

\* mask_window without the +1 of the slice end
mask_window_short(non0tab_n, p0, p1) ==
    {r \in DOMAIN non0tab_n : p0 \div BLKSIZE <= r /\ r < p1 \div BLKSIZE}

\* line 166: the rows non0tab_n[p0//BLKSIZE : p1//BLKSIZE+1] of the mask
mask_window(non0tab_n, p0, p1) ==
    {r \in DOMAIN non0tab_n : p0 \div BLKSIZE <= r /\ r < p1 \div BLKSIZE + 1}

\* eval_ao(mf_n.mol, coords, non0tab=mask_n) at point p of the block that
\* starts at p0: the basis function is evaluated where its mask row is set
ao_n(non0tab_n, rows, p0, p) ==
    LET r == (p0 \div BLKSIZE) + ((p - p0) \div BLKSIZE)
    IN  IF r \in rows /\ non0tab_n[r] # 0 THEN 1 ELSE 0

RECURSIVE SumFn(_, _, _)
SumFn(f, lo, hi) == IF lo >= hi THEN 0 ELSE f[lo] + SumFn(f, lo + 1, hi)

\* grid_block with eval_epc called before the test of the mask
grid_block_eager(acc, size, epc, non0tab_n, dm_e, dm_n) ==
    LET p0     == acc.p1
        p1     == acc.p1 + size
        rows   == mask_window(non0tab_n, p0, p1)
        skip   == \A r \in rows : non0tab_n[r] = 0
        blk    == [p0 |-> p0, p1 |-> p1, rows |-> rows, skip |-> skip]
        rho_e  == [p \in p0 .. (p1 - 1) |-> Clamp(ao_e(p) * dm_e * ao_e(p))]
        rho_n  == [p \in p0 .. (p1 - 1) |->
                     Clamp(ao_n(non0tab_n, rows, p0, p) * dm_n
                             * ao_n(non0tab_n, rows, p0, p))]
        f      == [p \in p0 .. (p1 - 1) |-> eval_epc(epc, rho_e[p], rho_n[p])]
        st     == eval_epc(epc, 0, 0).status
        den    == [p \in p0 .. (p1 - 1) |-> rho_n[p] * weight(p)]
        d_exc  == SumFn([p \in p0 .. (p1 - 1) |-> den[p] * f[p].exc], p0, p1)
        d_n    == SumFn([p \in p0 .. (p1 - 1) |->
                     ao_n(non0tab_n, rows, p0, p) * ((weight(p) \div 2) * f[p].vxc_n)
                         * ao_n(non0tab_n, rows, p0, p)], p0, p1)
        d_e    == SumFn([p \in p0 .. (p1 - 1) |->
                     ao_e(p) * ((weight(p) \div 2) * f[p].vxc_e) * ao_e(p)], p0, p1)
    IN  IF acc.status # "ok" THEN acc
        ELSE IF st # "ok"
        THEN [acc EXCEPT !.p1 = p1, !.blocks = Append(@, blk), !.status = st,
                         !.trace = @ \o <<"eval_rho", "eval_ao", "eval_epc">>]
        ELSE IF skip
        THEN [acc EXCEPT !.p1 = p1, !.blocks = Append(@, blk),
                         !.trace = Append(@, "skip")]
        ELSE [acc EXCEPT !.p1 = p1, !.blocks = Append(@, blk),
                         !.trace = @ \o <<"eval_rho", "eval_ao", "eval_epc">>,
                         !.exc_sum = @ + d_exc,
                         !.vxc_n = @ + d_n,
                         !.vxc_e = @ + d_e]

\* lines 165-189: one pass of the loop body for the block of `size` points
grid_block(acc, size, epc, non0tab_n, dm_e, dm_n) ==
    LET p0     == acc.p1
        p1     == acc.p1 + size
        rows   == mask_window(non0tab_n, p0, p1)
        skip   == \A r \in rows : non0tab_n[r] = 0
        blk    == [p0 |-> p0, p1 |-> p1, rows |-> rows, skip |-> skip]
        rho_e  == [p \in p0 .. (p1 - 1) |-> Clamp(ao_e(p) * dm_e * ao_e(p))]
        rho_n  == [p \in p0 .. (p1 - 1) |->
                     Clamp(ao_n(non0tab_n, rows, p0, p) * dm_n
                             * ao_n(non0tab_n, rows, p0, p))]
        f      == [p \in p0 .. (p1 - 1) |-> eval_epc(epc, rho_e[p], rho_n[p])]
        st     == eval_epc(epc, 0, 0).status
        den    == [p \in p0 .. (p1 - 1) |-> rho_n[p] * weight(p)]
        d_exc  == SumFn([p \in p0 .. (p1 - 1) |-> den[p] * f[p].exc], p0, p1)
        d_n    == SumFn([p \in p0 .. (p1 - 1) |->
                     ao_n(non0tab_n, rows, p0, p) * ((weight(p) \div 2) * f[p].vxc_n)
                         * ao_n(non0tab_n, rows, p0, p)], p0, p1)
        d_e    == SumFn([p \in p0 .. (p1 - 1) |->
                     ao_e(p) * ((weight(p) \div 2) * f[p].vxc_e) * ao_e(p)], p0, p1)
    IN  IF acc.status # "ok" THEN acc
        ELSE IF skip
        THEN [acc EXCEPT !.p1 = p1, !.blocks = Append(@, blk),
                         !.trace = Append(@, "skip")]
        ELSE IF st # "ok"
        THEN [acc EXCEPT !.p1 = p1, !.blocks = Append(@, blk), !.status = st,
                         !.trace = @ \o <<"eval_rho", "eval_ao", "eval_epc">>]
        ELSE [acc EXCEPT !.p1 = p1, !.blocks = Append(@, blk),
                         !.trace = @ \o <<"eval_rho", "eval_ao", "eval_epc">>,
                         !.exc_sum = @ + d_exc,
                         !.vxc_n = @ + d_n,
                         !.vxc_e = @ + d_e]

RECURSIVE grid_loop(_, _, _, _, _, _, _)
grid_loop(acc, sizes, k, epc, non0tab_n, dm_e, dm_n) ==
    IF k > Len(sizes) THEN acc
    ELSE grid_loop(grid_block(acc, sizes[k], epc, non0tab_n, dm_e, dm_n),
                   sizes, k + 1, epc, non0tab_n, dm_e, dm_n)

(***************************************************************************)
(* InteractionCorrelation.get_vint(dm) of the pair, with functional epc,    *)
(* molecule m and grid g.  The result: status, the map v over the two       *)
(* members, and what was computed, in order (trace, blocks).                *)
(***************************************************************************)
\* coulomb_only with _need_epc evaluated before the densities are looked up
coulomb_only_eager(pair, epc, m, dm) ==
    IF _need_epc(epc, m, pair[1], pair[2]) = "KeyError" THEN "KeyError"
    ELSE IF ~(pair[1] \in DOMAIN dm /\ pair[2] \in DOMAIN dm) THEN "True"
    ELSE IF _need_epc(epc, m, pair[1], pair[2]) = "True" THEN "False" ELSE "True"

\* line 129: the test, or the exception of _need_epc; `and` short-circuits
coulomb_only(pair, epc, m, dm) ==
    IF ~(pair[1] \in DOMAIN dm) THEN "True"
    ELSE IF ~(pair[2] \in DOMAIN dm) THEN "True"
    ELSE LET r == _need_epc(epc, m, pair[1], pair[2])
         IN  IF r = "KeyError" THEN r ELSE IF r = "True" THEN "False" ELSE "True"

\* lines 191-197, given the Coulomb result vj and the outcome acc of the loop
tag_result(pair, vj, acc) ==
    LET n_type == IF pair[1] = E THEN pair[2] ELSE pair[1]
        vxc_n  == acc.vxc_n + acc.vxc_n
        vxc_e  == acc.vxc_e + acc.vxc_e
    IN  IF acc.status # "ok"
        THEN [status |-> acc.status, epc |-> FALSE, trace |-> acc.trace,
              blocks |-> acc.blocks,
              v |-> [t \in {pair[1], pair[2]} |-> plain(0)]]
        ELSE [status |-> "ok", epc |-> TRUE, trace |-> acc.trace,
              blocks |-> acc.blocks,
              v |-> [t \in {pair[1], pair[2]} |->
                       IF t = E
                       THEN tag_array(vj[E] + vxc_e, acc.exc_sum, vj[E])
                       ELSE tag_array(vj[n_type] + vxc_n, acc.exc_sum, vj[n_type])]]

InteractionCorrelation_get_vint(pair, epc, m, g, dm) ==
    LET vj   == InteractionCoulomb_get_vint(pair, dm)
        only == coulomb_only(pair, epc, m, dm)
        pre  == IF pair[1] \in DOMAIN dm /\ pair[2] \in DOMAIN dm
                THEN <<"coulomb", "need_epc">> ELSE <<"coulomb">>
        n_type == IF pair[1] = E THEN pair[2] ELSE pair[1]
        e_type == IF pair[1] = E THEN pair[1] ELSE pair[2]
        acc0 == [p1 |-> 0, exc_sum |-> 0, vxc_e |-> 0, vxc_n |-> 0,
                 status |-> "ok", blocks |-> <<>>,
                 trace |-> pre \o <<"make_mask">>]
    IN  IF only = "KeyError"
        THEN [status |-> "KeyError", epc |-> FALSE, trace |-> pre,
              blocks |-> <<>>,
              v |-> [t \in {pair[1], pair[2]} |-> plain(0)]]
        ELSE IF only = "True"
        THEN [status |-> "ok", epc |-> FALSE, trace |-> pre, blocks |-> <<>>,
              v |-> [t \in {pair[1], pair[2]} |-> plain(vj[t])]]
        ELSE tag_result(pair, vj,
                 grid_loop(acc0, block_loop(g), 1, epc,
                           make_mask(g, atom_index(n_type)),
                           dm[e_type], dm[n_type]))

(***************************************************************************)
(* hf.generate_interactions: one interaction per unordered pair of          *)
(* components, in the order of the sorted keys.                             *)
(***************************************************************************)
PairKey(pr) == Rank(pr[1]) * (MaxNuc + 2) + Rank(pr[2])
PairsOf(comps) == {pr \in comps \X comps : Rank(pr[1]) < Rank(pr[2])}

RECURSIVE SortPairs(_)
SortPairs(S) ==
    IF S = {} THEN <<>>
    ELSE LET first == CHOOSE pr \in S : \A q \in S : PairKey(pr) <= PairKey(q)
         IN  <<first>> \o SortPairs(S \ {first})

generate_interactions(comps, cls, spec) ==
    [k \in 1 .. Cardinality(PairsOf(comps)) |->
        [pair |-> SortPairs(PairsOf(comps))[k], cls |-> cls, epc |-> spec]]

(***************************************************************************)
(* KS.get_vint                                                              *)
(***************************************************************************)
\* vint_add with the accumulated correlation energy dropped when both are tagged
vint_add_exc_dropped(acc, v) ==
    IF hasattr_exc(v)
    THEN IF hasattr_exc(acc)
         THEN tag_array(acc.m + v.m, v.exc, acc.vj + v.vj)
         ELSE tag_array(acc.m + v.m, v.exc, v.vj)
    ELSE IF hasattr_exc(acc)
         THEN tag_array(acc.m + v.m, acc.exc, acc.vj + v.m)
         ELSE plain(acc.m + v.m)

\* lines 274-288: the accumulator vint[t] after the contribution v[t]
vint_add(acc, v) ==
    IF hasattr_exc(v)
    THEN IF hasattr_exc(acc)
         THEN tag_array(acc.m + v.m, acc.exc + v.exc, acc.vj + v.vj)
         ELSE tag_array(acc.m + v.m, v.exc, v.vj)
    ELSE IF hasattr_exc(acc)
         THEN tag_array(acc.m + v.m, acc.exc, acc.vj + v.m)
         ELSE plain(acc.m + v.m)

\* lines 270-288: the loop over self.interactions, from interaction k on
\* lines 272-288 for the result r of one interaction
ks_vint_step(acc, pair, r) ==
    IF r.status # "ok"
    THEN [acc EXCEPT !.status = r.status, !.vpair = Append(@, r)]
    ELSE [acc EXCEPT
             !.vpair = Append(@, r),
             !.vint = [t \in DOMAIN @ |->
                         IF t \in {pair[1], pair[2]}
                         THEN vint_add(@[t], r.v[t]) ELSE @[t]]]

\* lines 270-288: the loop over self.interactions, from interaction k on
RECURSIVE ks_vint_loop(_, _, _, _, _, _)
ks_vint_loop(acc, inters, k, m, g, d) ==
    IF k > Len(inters) \/ acc.status # "ok" THEN acc
    ELSE ks_vint_loop(
             ks_vint_step(acc, inters[k].pair,
                 InteractionCorrelation_get_vint(inters[k].pair, inters[k].epc,
                                                 m, g, d)),
             inters, k + 1, m, g, d)

KS_get_vint(comps, inters, m, g, d) ==
    ks_vint_loop([status |-> "ok", vpair |-> <<>>,
                  vint |-> [t \in comps |-> plain(0)]],
                 inters, 1, m, g, d)

(***************************************************************************)
(* The intra-component parts used by energy_elec: the core Hamiltonian,     *)
(* get_veff (Kohn-Sham components carry exc and ecoul, a nucleus is         *)
(* Hartree-Fock and carries neither) and the component's own energy_elec.   *)
(***************************************************************************)
is_ks(t) == ~startswith_n(t)
h1e(t) == 0 - (3 + Rank(t))

get_veff(comps, d) ==
    [t \in comps |->
        IF is_ks(t)
        THEN [m |-> 2 * d[t], tag |-> TRUE, exc |-> 0 - (5 * d[t]),
              ecoul |-> 4 * d[t] * d[t]]
        ELSE [m |-> 2 * d[t], tag |-> FALSE, exc |-> 0, ecoul |-> 0]]

comp_energy_elec(t, dm_t, h, vhf_t) ==
    IF is_ks(t)
    THEN [e1 |-> dm_t * h, e2 |-> vhf_t.ecoul + vhf_t.exc,
          coul |-> vhf_t.ecoul, exc |-> vhf_t.exc]
    ELSE [e1 |-> dm_t * h, e2 |-> (dm_t * vhf_t.m) \div 2,
          coul |-> 0, exc |-> 0]

RECURSIVE SumSet(_, _)
SumSet(f, S) ==
    IF S = {} THEN 0
    ELSE LET x == CHOOSE y \in S : TRUE IN f[x] + SumSet(f, S \ {x})

(***************************************************************************)
(* KS.energy_elec                                                           *)
(***************************************************************************)
\* lines 245-246: vhf[t].exc += vint[t].exc, on the caller's vhf[t]
assign_exc(vhf_t, vint_t) ==
    IF hasattr_exc(vhf_t) /\ hasattr_exc(vint_t)
    THEN [vhf_t EXCEPT !.exc = @ + vint_t.exc]
    ELSE vhf_t

\* lines 247-250
raw_vj(vint_t) == IF hasattr_vj(vint_t) THEN vint_t.vj ELSE vint_t.m

\* lines 258-260: the components whose coul and exc enter scf_summary
in_summary(vhf_t) == hasattr_exc(vhf_t)

KS_energy_elec(comps, d, vhf0, vint0) ==
    LET vhf1 == [t \in comps |-> assign_exc(vhf0[t], vint0[t])]
        en   == [t \in comps |->
                    comp_energy_elec(t, d[t], h1e(t) + (raw_vj(vint0[t]) \div 2),
                                     vhf1[t])]
        ks   == {t \in comps : in_summary(vhf1[t])}
    IN  [vhf |-> vhf1,
         e_elec |-> SumSet([t \in comps |-> en[t].e1 + en[t].e2], comps),
         e2 |-> SumSet([t \in comps |-> en[t].e2], comps),
         scf_summary |->
            [e1 |-> SumSet([t \in comps |-> en[t].e1], comps),
             coul |-> SumSet([t \in comps |-> en[t].coul], ks),
             exc |-> SumSet([t \in comps |-> en[t].exc], ks)]]

(***************************************************************************)
(* The names bound in the module ks.py (lines 7-12, 15, 103, 199), which    *)
(* a bare name in a method body is looked up in.                            *)
(***************************************************************************)
ModuleNames ==
    {"numpy", "dft", "lib", "logger", "BLKSIZE", "NBINS", "eval_ao", "eval_rho",
     "_scale_ao", "_dot_ao_ao", "_dot_ao_ao_sparse", "hf", "eval_epc",
     "InteractionCorrelation", "KS"}

(***************************************************************************)
(* State                                                                    *)
(***************************************************************************)
VARIABLES
    mol,            \* self.mol
    components,     \* the keys of self.components
    epc,            \* self.epc
    grids,          \* the grid of the electronic component
    interactions,   \* self.interactions
    dm,             \* the density matrices of the SCF driver
    vint,           \* the driver's result of get_vint(dm)
    vpair,          \* what each interaction returned in that get_vint
    vhf,            \* the driver's result of get_veff(dm)
    energy,         \* the last result of energy_elec and self.scf_summary
    ncalls,         \* energy_elec calls made with this vhf
    status,         \* "ok", or the exception that ended the run
    op              \* the last operation

vars == <<mol, components, epc, grids, interactions, dm, vint, vpair, vhf,
          energy, ncalls, status, op>>

NoDm == [t \in {} |-> 0]
NoEnergy == [e_elec |-> 0, e2 |-> 0, scf_summary |-> [e1 |-> 0, coul |-> 0, exc |-> 0]]

\* the density maps the driver may supply: any subset of the components
Densities(comps) ==
    UNION { {d \in [S -> 1 .. 2] : \A t \in S : t # E => d[t] = 1} : S \in SUBSET comps }

\* grids of the general specification: nucleus i is active in one mask row
MainGrids ==
    {g \in Grids : /\ g.ngrids \in {MaxGrid - 1, MaxGrid}
                   /\ g.blk = 1
                   /\ \A i \in Atoms : g.non0[i] = {Min(i, NRows(g.ngrids) - 1)}}

\* KS.__init__ (lines 211-230)
KS_init(m, spec, g) ==
    /\ mol = m
    /\ components = mol_components(m)
    /\ epc = spec
    /\ grids = g
    /\ interactions = generate_interactions(mol_components(m),
                                            "InteractionCorrelation", spec)
    /\ dm = NoDm
    /\ vint = NoDm
    /\ vpair = <<>>
    /\ vhf = NoDm
    /\ energy = NoEnergy
    /\ ncalls = 0
    /\ status = "ok"
    /\ op = "init"

Init == \E m \in Mols, spec \in EpcSpecs, g \in MainGrids : KS_init(m, spec, g)

\* one hydrogen nucleus, every grid and mask
InitGrid ==
    \E spec \in EpcSpecs, g \in Grids :
        /\ \A i \in Atoms \ {0} : g.non0[i] = {}
        /\ KS_init([nuc |-> [i \in Atoms |-> IF i = 0 THEN "H" ELSE "-"],
                    pos |-> FALSE], spec, g)

\* the driver holds d and the result r of get_vint(d)
HoldVint(d, r) ==
    /\ dm' = d
    /\ vpair' = r.vpair
    /\ status' = r.status
    /\ vint' = IF r.status = "ok" THEN r.vint ELSE NoDm

\* the driver calls get_vint with the density matrices d.  A call replaces all
\* that the driver holds, so a call made after an earlier one reaches the
\* states that the first call of a run reaches: only that one is kept.
GetVint ==
    /\ status = "ok"
    /\ op \in {"init", "reset"}
    /\ \E d \in Densities(components) :
         HoldVint(d, KS_get_vint(components, interactions, mol, grids, d))
    /\ vhf' = NoDm
    /\ energy' = NoEnergy
    /\ ncalls' = 0
    /\ op' = "get_vint"
    /\ UNCHANGED <<mol, components, epc, grids, interactions>>

\* the driver calls get_veff with the same density matrices
GetVeff ==
    /\ status = "ok"
    /\ op = "get_vint"
    /\ DOMAIN dm = components
    /\ vhf' = get_veff(components, dm)
    /\ op' = "get_veff"
    /\ UNCHANGED <<mol, components, epc, grids, interactions, dm, vint, vpair,
                   energy, ncalls, status>>

\* energy_elec returned r: vhf[t].exc was rebound, scf_summary was set
HoldEnergy(r) ==
    /\ vhf' = r.vhf
    /\ energy' = [e_elec |-> r.e_elec, e2 |-> r.e2,
                  scf_summary |-> r.scf_summary]

\* the driver calls energy_elec(dm, h1e, vhf, vint) with the objects it holds
EnergyElec ==
    /\ status = "ok"
    /\ op \in {"get_veff", "energy_elec"}
    /\ ncalls < MaxCalls
    /\ HoldEnergy(KS_energy_elec(components, dm, vhf, vint))
    /\ ncalls' = ncalls + 1
    /\ op' = "energy_elec"
    /\ UNCHANGED <<mol, components, epc, grids, interactions, dm, vint, vpair,
                   status>>

\* KS.reset(mol) (lines 291-311).  hf.HF.reset rebinds self.mol and the
\* components; the rebuild of lines 297-310 looks up the bare names
\* general_scf and generate_interactions in the module.
Reset ==
    /\ status = "ok"
    /\ \E m \in Mols :
         LET old_keys == components
             new_keys == mol_components(m)
         IN  /\ mol' = m
             /\ components' = new_keys
             /\ IF old_keys # new_keys
                THEN IF "general_scf" \notin ModuleNames
                     THEN /\ status' = "NameError"
                          /\ UNCHANGED interactions
                     ELSE IF "generate_interactions" \notin ModuleNames
                     THEN /\ status' = "NameError"
                          /\ UNCHANGED interactions
                     ELSE /\ status' = "ok"
                          /\ interactions' =
                               generate_interactions(new_keys,
                                   "InteractionCorrelation", epc)
                ELSE UNCHANGED <<interactions, status>>
    /\ dm' = NoDm
    /\ vint' = NoDm
    /\ vpair' = <<>>
    /\ vhf' = NoDm
    /\ energy' = NoEnergy
    /\ ncalls' = 0
    /\ op' = "reset"
    /\ UNCHANGED <<epc, grids>>

Next == GetVint \/ GetVeff \/ EnergyElec \/ Reset

Spec == Init /\ [][Next]_vars
SpecGrid == InitGrid /\ [][Next]_vars

(***************************************************************************)
(* Helpers of the properties                                                *)
(***************************************************************************)
\* an untagged matrix has zero correlation energy and is its own raw Coulomb
ExcOf(x) == IF x.tag THEN x.exc ELSE 0
VjOf(x) == IF x.tag THEN x.vj ELSE x.m

\* the contributions of the last get_vint to component t, in processing order
RECURSIVE ContribsFrom(_, _)
ContribsFrom(t, k) ==
    IF k > Len(vpair) THEN <<>>
    ELSE IF vpair[k].status = "ok" /\ t \in DOMAIN vpair[k].v
         THEN <<vpair[k].v[t]>> \o ContribsFrom(t, k + 1)
         ELSE ContribsFrom(t, k + 1)
Contribs(t) == ContribsFrom(t, 1)

Perms(n) == {f \in [1 .. n -> 1 .. n] : \A i, j \in 1 .. n : f[i] = f[j] => i = j}

\* the accumulator of KS.get_vint after the contributions c, taken in order f
RECURSIVE Accumulate(_, _, _)
Accumulate(c, f, k) ==
    IF k = 0 THEN plain(0) ELSE vint_add(Accumulate(c, f, k - 1), c[f[k]])

RECURSIVE SumSeq(_, _)
SumSeq(c, k) == IF k = 0 THEN 0 ELSE c[k] + SumSeq(c, k - 1)

BothIn(pair, d) == pair[1] \in DOMAIN d /\ pair[2] \in DOMAIN d
NucOf(pair) == IF pair[1] = E THEN pair[2] ELSE pair[1]

(***************************************************************************)
(* C1: in KS.get_vint the aggregated result of a component is the same for  *)
(* every processing order of the pairs touching it: matrix = sum of the     *)
(* contributions, correlation energy = sum of their correlation energies    *)
(* (untagged: zero), raw Coulomb = sum of their raw Coulomb matrices        *)
(* (untagged: the matrix itself).                                           *)
(***************************************************************************)
C1_OrderIndependent ==
    (op = "get_vint" /\ status = "ok") =>
        \A t \in components :
            LET c == Contribs(t)
                n == Len(c)
            IN  \A f \in Perms(n) :
                    LET r == Accumulate(c, f, n)
                    IN  /\ r.m = SumSeq([k \in 1 .. n |-> c[k].m], n)
                        /\ ExcOf(r) = SumSeq([k \in 1 .. n |-> ExcOf(c[k])], n)
                        /\ VjOf(r) = SumSeq([k \in 1 .. n |-> VjOf(c[k])], n)

(***************************************************************************)
(* C2: the total energy of energy_elec contains every pairwise Coulomb      *)
(* energy exactly once: it is the sum of the components' own energies       *)
(* (core Hamiltonian and two-body part) plus the Coulomb energy of each     *)
(* unordered pair of components.                                            *)
(***************************************************************************)
PairCoulomb(pr) == charge(pr[1]) * charge(pr[2]) * Kern(pr[1], pr[2]) * dm[pr[1]] * dm[pr[2]]

C2_CoulombOnce ==
    (op = "energy_elec" /\ status = "ok") =>
        energy.e_elec =
            SumSet([t \in components |->
                       dm[t] * h1e(t)
                         + comp_energy_elec(t, dm[t], h1e(t), vhf[t]).e2],
                   components)
            + SumSet([pr \in PairsOf(components) |-> PairCoulomb(pr)],
                     PairsOf(components))

(***************************************************************************)
(* C3: a call of energy_elec adds the correlation energy of each pair to    *)
(* which correlation applied exactly once to the exchange-correlation       *)
(* energy of the vhf it was given: scf_summary['exc'] is the sum of the     *)
(* Kohn-Sham components' exc before the call plus each such pair's          *)
(* correlation energy, once.                                                *)
(***************************************************************************)
PairExc(k) == IF vpair[k].epc THEN vpair[k].v[E].exc ELSE 0

C4_CoulombFallback ==
    op = "get_vint" =>
        \A k \in 1 .. Len(vpair) :
            LET pair == interactions[k].pair
                r    == vpair[k]
                vj   == InteractionCoulomb_get_vint(pair, dm)
                need == IF BothIn(pair, dm)
                        THEN _need_epc(epc, mol, pair[1], pair[2]) ELSE "absent"
            IN  /\ r.trace[1] = "coulomb"
                /\ need \in {"absent", "False"} =>
                      /\ r.status = "ok"
                      /\ \A t \in DOMAIN r.v : r.v[t] = plain(vj[t])
                /\ (r.status = "ok" /\ \E t \in DOMAIN r.v : r.v[t].tag) =>
                      /\ need = "True"
                      /\ \A t \in DOMAIN r.v :
                            r.v[t].tag /\ r.v[t].vj = vj[t]

C4_Witness ==
    /\ op = "get_vint"
    /\ status = "ok"
    /\ \E k \in 1 .. Len(vpair) :
          /\ ~BothIn(interactions[k].pair, dm)
          /\ interactions[k].pair[1] \in DOMAIN dm
          /\ _need_epc(epc, mol, interactions[k].pair[1], interactions[k].pair[2]) = "True"
          /\ \A t \in DOMAIN vpair[k].v : ~vpair[k].v[t].tag
    /\ \E k \in 1 .. Len(vpair) : vpair[k].epc

(***************************************************************************)
(* C5: _need_epc is true exactly when a functional is configured, one       *)
(* member is the electron, the other a quantum hydrogen nucleus, and the    *)
(* spec is a str or a dict whose epc_nuc holds the nucleus's index; it is   *)
(* symmetric in the members and a boolean for every valid spec.  With       *)
(* epc_nuc = {0} and the only hydrogen at index 1 the result of the pair is *)
(* the plain Coulomb result.                                                *)
(***************************************************************************)
ValidSpec(s) ==
    \/ s.kind = "none"
    \/ s.kind = "str" /\ s.name \in ParamNames
    \/ s.kind = "dict" /\ s.keys = AllKeys /\ s.epc_type \in {"17", "18"}

EpcApplies(t, u) ==
    /\ epc.kind # "none"
    /\ Cardinality({x \in {t, u} : x = E}) = 1
    /\ \E n \in {t, u} :
          /\ n[1] = "n"
          /\ mol.nuc[n[2]] = "H"
          /\ (epc.kind = "str" \/ n[2] \in epc.epc_nuc)

C5_NeedEpc ==
    /\ \A t, u \in components :
          t # u =>
             LET r == _need_epc(epc, mol, t, u)
             IN  /\ ValidSpec(epc) => r \in {"True", "False"}
                 /\ r # "KeyError" => (r = "True" <=> EpcApplies(t, u))
                 /\ r = _need_epc(epc, mol, u, t)
    /\ op = "get_vint" =>
          \A k \in 1 .. Len(vpair) :
             LET pair == interactions[k].pair
             IN  (BothIn(pair, dm) /\ ~EpcApplies(pair[1], pair[2])
                     /\ _need_epc(epc, mol, pair[1], pair[2]) # "KeyError") =>
                    /\ vpair[k].status = "ok"
                    /\ \A t \in DOMAIN vpair[k].v :
                          vpair[k].v[t] =
                             plain(InteractionCoulomb_get_vint(pair, dm)[t])

C5_Witness ==
    /\ op = "get_vint"
    /\ status = "ok"
    /\ epc.kind = "dict" /\ epc.keys = AllKeys /\ epc.epc_nuc = {0}
    /\ {i \in Atoms : mol.nuc[i] = "H"} = {1}
    /\ DOMAIN dm = components
    /\ \E k \in 1 .. Len(vpair) :
          /\ interactions[k].pair = <<E, N(1)>>
          /\ ~vpair[k].epc

(***************************************************************************)
(* C6: after KS.reset the call has completed, and the interactions are      *)
(* those of the pairs of the present components with the configured         *)
(* functional (rebuilt when the tags changed, left in place when not).      *)
(***************************************************************************)
C6_ResetRebuilds ==
    op = "reset" =>
        /\ status = "ok"
        /\ interactions =
              generate_interactions(components, "InteractionCorrelation", epc)

(***************************************************************************)
(* C7 as stated: with an unrecognized preset, or a dict that omits a, b or  *)
(* c, get_vint fails with the configuration error before any Coulomb, mask  *)
(* or grid-block computation, whatever the components, densities and        *)
(* skipped blocks.                                                          *)
(***************************************************************************)
InvalidSpec(s) ==
    \/ s.kind = "str" /\ s.name \notin ParamNames
    \/ s.kind = "dict" /\ ~({"a", "b", "c"} \subseteq s.keys)

GridWork == {"coulomb", "make_mask", "skip", "eval_rho", "eval_ao"}

Rhos == 0 .. 2
Values(x) == <<x.exc, x.vxc_n, x.vxc_e>>

C8_Resolution ==
    LET r == parse_epc(epc)
        uses17 == \A re, rn \in Rhos :
                     Values(eval_epc(epc, re, rn))
                        = Values(epc17(r.abc[1], r.abc[2], r.abc[3], re, rn))
        uses18 == \A re, rn \in Rhos :
                     Values(eval_epc(epc, re, rn))
                        = Values(epc18(r.abc[1], r.abc[2], r.abc[3], re, rn))
    IN  /\ epc.kind = "str" /\ epc.name = "17-1" =>
              r.status = "ok" /\ r.abc = <<235, 240, 320>>
        /\ epc.kind = "str" /\ epc.name = "17-2" =>
              r.status = "ok" /\ r.abc = <<235, 240, 660>>
        /\ epc.kind = "str" /\ epc.name = "18-1" =>
              r.status = "ok" /\ r.abc = <<180, 10, 3>>
        /\ epc.kind = "str" /\ epc.name = "18-2" =>
              r.status = "ok" /\ r.abc = <<390, 50, 6>>
        /\ (epc.kind = "dict" /\ "epc_type" \in epc.keys
               /\ epc.epc_type \in {"17", "18"}
               /\ {"a", "b", "c"} \subseteq epc.keys) =>
              r.status = "ok" /\ r.abc = <<epc.a, epc.b, epc.c>>
        /\ r.status = "ok" =>
              /\ uses17 <=> r.epc_type \in {"17", "17-1", "17-2"}
              /\ uses18 <=> r.epc_type \in {"18", "18-1", "18-2"}
        /\ (op = "get_vint" /\ status = "ok") =>
              \A k \in 1 .. Len(vpair) : vpair[k].epc => r.status = "ok"

C8_Witness ==
    /\ op = "get_vint"
    /\ epc.kind = "str"
    /\ epc.name = "17-1"
    /\ \E k \in 1 .. Len(vpair) : vpair[k].epc /\ vpair[k].v[E].exc # 0

(***************************************************************************)
(* C9: in the block loop the ranges [p0, p1) partition the grid in order,   *)
(* the mask window of a block covers the mask rows of its points, a block   *)
(* is skipped only when the nuclear basis function is active at none of     *)
(* its points, and the energy and both potential matrices are the sums     *)
(* over all grid points, each taken once.                                   *)
(***************************************************************************)
RowOf(p) == p \div BLKSIZE

PointEpc(i, p) ==
    eval_epc(epc, Clamp(dm[E]),
             IF RowOf(p) \in grids.non0[i] THEN Clamp(dm[N(i)]) ELSE 0)

C9_BlocksOnce ==
    op = "get_vint" =>
        \A k \in 1 .. Len(vpair) :
            vpair[k].epc =>
               LET r   == vpair[k]
                   i   == atom_index(NucOf(interactions[k].pair))
                   b   == r.blocks
                   vj  == InteractionCoulomb_get_vint(interactions[k].pair, dm)
                   pts == 0 .. (grids.ngrids - 1)
                   act == {p \in pts : RowOf(p) \in grids.non0[i]}
               IN  /\ Len(b) >= 1
                   /\ b[1].p0 = 0
                   /\ b[Len(b)].p1 = grids.ngrids
                   /\ \A j \in 1 .. Len(b) : b[j].p0 < b[j].p1
                   /\ \A j \in 1 .. (Len(b) - 1) : b[j + 1].p0 = b[j].p1
                   /\ \A j \in 1 .. Len(b) :
                         \A p \in b[j].p0 .. (b[j].p1 - 1) :
                             /\ RowOf(p) \in b[j].rows
                             /\ b[j].skip => p \notin act
                   /\ r.v[E].exc =
                         SumSet([p \in pts |->
                                   weight(p) * Clamp(dm[N(i)]) * PointEpc(i, p).exc],
                                act)
                   /\ r.v[N(i)].m = vj[N(i)] +
                         2 * SumSet([p \in pts |->
                                   (weight(p) \div 2) * PointEpc(i, p).vxc_n], act)
                   /\ r.v[E].m = vj[E] +
                         2 * SumSet([p \in pts |->
                                   (weight(p) \div 2) * PointEpc(i, p).vxc_e], pts)

C9_Witness ==
    /\ op = "get_vint"
    /\ grids.ngrids % (grids.blk * BLKSIZE) # 0
    /\ \E k \in 1 .. Len(vpair) :
          /\ vpair[k].epc
          /\ Len(vpair[k].blocks) >= 2
          /\ vpair[k].blocks[1].skip
          /\ ~vpair[k].blocks[Len(vpair[k].blocks)].skip
          /\ vpair[k].v[E].exc # 0

(***************************************************************************)
(* C10: energy_elec leaves vhf as it was given, and a second call with the  *)
(* same arguments returns what the first call returned.                     *)
(***************************************************************************)
C10_ArgumentsUnchanged ==
    [][op' = "energy_elec" =>
          /\ vhf' = vhf
          /\ op = "energy_elec" => energy' = energy]_vars

====
